---------------------------- MODULE Spec2Model ----------------------------
(***************************************************************************)
(* Model of src/main.py, the survey tabulation script: column              *)
(* classification (SA columns / MA groups), the four aggregation views,    *)
(* Top-N collapsing and label shortening.                                  *)
(*                                                                         *)
(* Text is modelled as a sequence of characters, each character a          *)
(* one-element token.  The non-ASCII characters of the source are written  *)
(* with ASCII tokens: "mu","kai","tou" are the three characters of the     *)
(* no-answer label of line 54, "so","no","ta" the three characters of the  *)
(* Other label of line 50, and "..." is the single ellipsis character of   *)
(* line 43.                                                                *)
(***************************************************************************)
EXTENDS Integers, Sequences, FiniteSets, TLC

VARIABLES
    pc,          \* position of the script run
    df,          \* the uploaded table (line 63)
    ma_groups,   \* line 66
    sa_cols,     \* line 68
    sel,         \* the widget values of the last run
    counts,      \* the frequency table the aggregation built
    analytic,    \* the table of the data grid, before the display view is built
    shown,       \* the table handed to st.dataframe
    view,        \* the crosstab handed to st.dataframe (line 199)
    chart,       \* the table handed to the chart (counts_top / show_df_top)
    arg,         \* argument of a helper applied on its own
    res          \* result of a helper applied on its own

vars == <<pc, df, ma_groups, sa_cols, sel, counts, analytic, shown, view, chart, arg, res>>

(***************************************************************************)
(* Bounds of the model.                                                    *)
(***************************************************************************)
MaxRows == 3
MaxCols == 3
MaxColLen == 3
MaxLabelLen == 4
MaxMaxLen == 5
MaxFreqRows == 4
MaxValue == 2
MaxTopN == 5
MaxCtRows == 6

(***************************************************************************)
(* Sliders of the sidebar (lines 77-78).                                   *)
(***************************************************************************)
LabelMaxLenMin == 8
LabelMaxLenMax == 60
TopNMin == 5
TopNMax == 30
TopNs == {TopNMin, TopNMax}
LabelMaxLens == {LabelMaxLenMin, LabelMaxLenMax}

(***************************************************************************)
(* Values.  A cell is missing (NaN/None), a number or a text.              *)
(***************************************************************************)
NA == [k |-> "na", n |-> 0, s |-> <<>>]
Num(i) == [k |-> "num", n |-> i, s |-> <<>>]
Str(t) == [k |-> "str", n |-> 0, s |-> t]

\* Python's None, as returned by split_ma_group (line 28): not a text.
None == <<"None">>

Digits == {"0", "1", "2", "3", "4", "5", "6", "7", "8", "9"}

DigitVal(c) ==
    CASE c = "0" -> 0 [] c = "1" -> 1 [] c = "2" -> 2 [] c = "3" -> 3
      [] c = "4" -> 4 [] c = "5" -> 5 [] c = "6" -> 6 [] c = "7" -> 7
      [] c = "8" -> 8 [] c = "9" -> 9

DigitChar(d) ==
    CASE d = 0 -> "0" [] d = 1 -> "1" [] d = 2 -> "2" [] d = 3 -> "3"
      [] d = 4 -> "4" [] d = 5 -> "5" [] d = 6 -> "6" [] d = 7 -> "7"
      [] d = 8 -> "8" [] d = 9 -> "9"

RECURSIVE DecimalValue(_)
DecimalValue(t) ==
    IF t = <<>> THEN 0
    ELSE 10 * DecimalValue(SubSeq(t, 1, Len(t) - 1)) + DigitVal(t[Len(t)])

RECURSIVE DecimalText(_)
DecimalText(i) ==
    IF i < 10 THEN <<DigitChar(i)>>
    ELSE Append(DecimalText(i \div 10), DigitChar(i % 10))

\* pd.to_numeric(..., errors="coerce") on one value: a number stays, a text
\* of decimal digits parses, any other text and a missing value become NaN.
to_numeric(c) ==
    CASE c.k = "num" -> c
      [] c.k = "na" -> NA
      [] c.k = "str" ->
            IF c.s # <<>> /\ \A i \in 1..Len(c.s) : c.s[i] \in Digits
            THEN Num(DecimalValue(c.s))
            ELSE NA

\* Series.dropna()
dropna(s) == SelectSeq(s, LAMBDA c : c.k # "na")

\* Series.fillna(v)
fillna(s, v) == [i \in 1..Len(s) |-> IF s[i].k = "na" THEN v ELSE s[i]]

\* str(x) of a label (line 40)
str(c) ==
    CASE c.k = "str" -> c.s
      [] c.k = "num" -> DecimalText(c.n)
      [] c.k = "na" -> <<"n", "a", "n">>

Range(s) == {s[i] : i \in 1..Len(s)}

RECURSIVE SumSeq(_)
SumSeq(s) == IF s = <<>> THEN 0 ELSE s[1] + SumSeq(Tail(s))

Min(a, b) == IF a <= b THEN a ELSE b
Max(a, b) == IF a >= b THEN a ELSE b

(***************************************************************************)
(* The table.  df.cols is the ordered sequence of columns, each with its   *)
(* name and its values; column names are distinct (pd.read_excel renames   *)
(* duplicates).                                                            *)
(***************************************************************************)
columns(t) == [i \in 1..Len(t.cols) |-> t.cols[i].name]

Column(t, c) == (CHOOSE i \in 1..Len(t.cols) : t.cols[i].name = c)

Series(t, c) == t.cols[Column(t, c)].vals

(***************************************************************************)
(* Helpers, lines 16-54.                                                   *)
(***************************************************************************)
is_binary_like(s) ==
    LET x == dropna(s)
        nums == dropna([i \in 1..Len(x) |-> to_numeric(x[i])])
        vals == {nums[i].n : i \in 1..Len(nums)}
    IN  IF Len(x) = 0 THEN FALSE ELSE vals \subseteq {0, 1}

\* " - " in col, and the place of its first occurrence
SepAt(col, i) ==
    /\ i + 2 <= Len(col)
    /\ col[i] = " " /\ col[i + 1] = "-" /\ col[i + 2] = " "

HasSep(col) == \E i \in 1..Len(col) : SepAt(col, i)

FirstSep(col) ==
    CHOOSE i \in 1..Len(col) : SepAt(col, i) /\ \A j \in 1..(i - 1) : ~SepAt(col, j)

RECURSIVE lstrip(_)
lstrip(t) == IF t # <<>> /\ t[1] = " " THEN lstrip(Tail(t)) ELSE t

RECURSIVE rstrip(_)
rstrip(t) ==
    IF t # <<>> /\ t[Len(t)] = " " THEN rstrip(SubSeq(t, 1, Len(t) - 1)) ELSE t

strip(t) == lstrip(rstrip(t))

split_ma_group(col) ==
    IF HasSep(col)
    THEN LET i == FirstSep(col)
         IN  <<strip(SubSeq(col, 1, i - 1)), strip(SubSeq(col, i + 3, Len(col)))>>
    ELSE <<None, None>>

\* truth value of a text or None in "if q and opt" (line 34)
Truthy(t) == t # None /\ t # <<>>

\* groups.setdefault(q, []).append(c): groups keeps its keys in insertion order
setdefault_append(groups, q, c) ==
    IF \E i \in 1..Len(groups) : groups[i].q = q
    THEN [i \in 1..Len(groups) |->
            IF groups[i].q = q
            THEN [groups[i] EXCEPT !.cols = Append(@, c)]
            ELSE groups[i]]
    ELSE Append(groups, [q |-> q, cols |-> <<c>>])

RECURSIVE collect_groups(_, _, _)
collect_groups(t, i, groups) ==
    IF i > Len(t.cols) THEN groups
    ELSE LET c == t.cols[i].name
             qo == split_ma_group(c)
         IN  collect_groups(t, i + 1,
                IF Truthy(qo[1]) /\ Truthy(qo[2]) /\ is_binary_like(t.cols[i].vals)
                THEN setdefault_append(groups, qo[1], c)
                ELSE groups)

MinGroupSize == 2

\* the groups of a single column kept
build_ma_groups_keep_single(t) ==
    SelectSeq(collect_groups(t, 1, <<>>), LAMBDA g : Len(g.cols) >= 1)

build_ma_groups(t) ==
    SelectSeq(collect_groups(t, 1, <<>>), LAMBDA g : Len(g.cols) >= MinGroupSize)

ma_option_cols_of(groups) == UNION {Range(groups[i].cols) : i \in 1..Len(groups)}

sa_cols_of(t, groups) ==
    SelectSeq(columns(t), LAMBDA c : c \notin ma_option_cols_of(groups))


\* s[:k] of Python: a negative k counts from the end
PySlicePrefix(t, k) ==
    IF k >= 0 THEN SubSeq(t, 1, Min(k, Len(t)))
    ELSE SubSeq(t, 1, Max(Len(t) + k, 0))

\* the length test of line 41 left out
shorten_label_always_truncates(s, max_len) ==
    Str(Append(PySlicePrefix(str(s), max_len - 1), "..."))

\* the label comes in as a value (a text, a number) and goes out as a text
shorten_label(s, max_len) ==
    LET t == str(s)
    IN  IF Len(t) <= max_len THEN Str(t)
        ELSE Str(Append(PySlicePrefix(t, max_len - 1), "..."))

OtherLabel == Str(<<"so", "no", "ta">>)
NoAnswerLabel == Str(<<"mu", "kai", "tou">>)

\* the missing values are left out instead of labelled
safe_series_dropna(s) == dropna(s)

safe_series(s) == fillna(s, NoAnswerLabel)

(***************************************************************************)
(* Derived tables (pandas DataFrames): an ordered sequence of column names *)
(* and a sequence of rows, each row a function from the column names to    *)
(* values.                                                                 *)
(***************************************************************************)
\* sum() of a numeric column skips NaN
ColSum(d, col) ==
    SumSeq([i \in 1..Len(d.rows) |->
                IF d.rows[i][col].k = "num" THEN d.rows[i][col].n ELSE 0])

\* pd.concat of the top rows and the one-row frame {label_col, value_col}:
\* the columns the Other row lacks are NaN
other_row(d, label_col, value_col, other_sum) ==
    [c \in Range(d.columns) |->
        IF c = label_col THEN OtherLabel
        ELSE IF c = value_col THEN Num(other_sum)
        ELSE NA]

\* line 46-47: the argument itself is returned, not a copy
topn_returns_argument(df_counts, top_n) == Len(df_counts.rows) <= top_n

\* the Other row sums from one row too far
topn_with_other_skip_one(df_counts, label_col, value_col, top_n) ==
    IF topn_returns_argument(df_counts, top_n) THEN df_counts
    ELSE LET n == Len(df_counts.rows)
             top == SubSeq(df_counts.rows, 1, top_n)
             rest == [columns |-> df_counts.columns,
                      rows |-> SubSeq(df_counts.rows, top_n + 2, n)]
         IN  [columns |-> df_counts.columns,
              rows |-> Append(top, other_row(df_counts, label_col, value_col,
                                             ColSum(rest, value_col)))]

topn_with_other(df_counts, label_col, value_col, top_n) ==
    IF topn_returns_argument(df_counts, top_n) THEN df_counts
    ELSE LET n == Len(df_counts.rows)
             top == SubSeq(df_counts.rows, 1, top_n)
             rest == [columns |-> df_counts.columns,
                      rows |-> SubSeq(df_counts.rows, top_n + 1, n)]
         IN  [columns |-> df_counts.columns,
              rows |-> Append(top, other_row(df_counts, label_col, value_col,
                                             ColSum(rest, value_col)))]

\* d[col] = values: adds (or replaces) a column of the object d
set_column(d, col, values) ==
    [columns |-> IF col \in Range(d.columns) THEN d.columns
                 ELSE Append(d.columns, col),
     rows |-> [i \in 1..Len(d.rows) |->
                 [c \in Range(d.columns) \cup {col} |->
                     IF c = col THEN values[i] ELSE d.rows[i][c]]]]

\* d[src].apply(lambda x: shorten_label(x, label_max_len))
shortened(d, src, label_max_len) ==
    [i \in 1..Len(d.rows) |-> shorten_label(d.rows[i][src], label_max_len)]

\* lines 107-108, 144-145, 245-246 on the objects they act on.  heap[1] is
\* the table the aggregation built; topn_with_other hands back either that
\* same object or a new one, and the display column is then set on the
\* object it handed back.
display_view(table, label_col, value_col, display_col, top_n, label_max_len) ==
    LET same == topn_returns_argument(table, top_n)
        heap1 == IF same THEN <<table>>
                 ELSE <<table, topn_with_other(table, label_col, value_col, top_n)>>
        r == IF same THEN 1 ELSE 2
        heap2 == [heap1 EXCEPT ![r] =
                    set_column(@, display_col,
                               shortened(@, label_col, label_max_len))]
    IN  [counts |-> heap2[1], counts_top |-> heap2[r]]

\* numpy's round(1) of num / den * 100, in tenths: round half to even
round1_pct(num, den) ==
    LET q == (num * 1000) \div den
        r == (num * 1000) % den
    IN  IF 2 * r < den THEN q
        ELSE IF 2 * r > den THEN q + 1
        ELSE IF q % 2 = 0 THEN q ELSE q + 1

Count(s, v) == Cardinality({i \in 1..Len(s) : s[i] = v})

\* the orders value_counts + sort_values(ascending=False) may give the
\* distinct values: non-increasing count, ties in an order pandas does not
\* promise
descending_orders(s) ==
    LET S == Range(s)
        n == Cardinality(S)
    IN  {o \in [1..n -> S] :
            /\ \A i, j \in 1..n : i # j => o[i] # o[j]
            /\ \A i \in 1..(n - 1) : Count(s, o[i]) >= Count(s, o[i + 1])}

\* lines 101-104 / 232-235 on the filled series s, the distinct values in
\* the order o
frequency_table(s, o) ==
    [columns |-> <<"label", "count", "pct">>,
     rows |-> [i \in 1..Len(o) |->
                 [c \in {"label", "count", "pct"} |->
                     IF c = "label" THEN o[i]
                     ELSE IF c = "count" THEN Num(Count(s, o[i]))
                     ELSE Num(round1_pct(Count(s, o[i]), Len(s)))]]]

\* d[[a, b]].copy()
select_columns(d, cs) ==
    [columns |-> cs,
     rows |-> [i \in 1..Len(d.rows) |-> [c \in Range(cs) |-> d.rows[i][c]]]]


(***************************************************************************)
(* The script run.  Every run of the script classifies the columns (lines  *)
(* 66-68) and then renders the view the widgets select.                    *)
(***************************************************************************)
NoTable == [nrows |-> 0, cols |-> <<>>]
NoFrame == [columns |-> <<>>, rows |-> <<>>]
NoView == [index |-> <<>>, columns |-> <<>>, values |-> <<>>]
NoSel == [view |-> "none", q |-> <<>>, right_q |-> <<>>, ma_q |-> 0, opt |-> 0,
          opt_pick |-> <<>>, col_pick |-> <<>>, metric |-> "none", ord |-> <<>>]

\* names of the uploaded sheet's columns used by the bounded tables
ColNames ==
    { <<"Q", " ", "-", " ", "A">>,          \* "Q - A"
      <<"Q", " ", " ", "-", " ", "B">>,     \* "Q  - B": same question after strip
      <<"R", " ", "-", " ", "A">>,          \* "R - A"
      <<"G">>,                              \* no separator
      <<" ", "-", " ", "A">> }              \* empty question

ClassifyCells == {NA, Num(1), Num(2), Str(<<"x">>)}

TableOf(names, vals, n) ==
    [nrows |-> n,
     cols |-> [i \in 1..Len(names) |-> [name |-> names[i], vals |-> vals[i]]]]

Injective(f) == \A i, j \in DOMAIN f : i # j => f[i] # f[j]

InitIdle ==
    /\ df = NoTable /\ ma_groups = <<>> /\ sa_cols = <<>> /\ sel = NoSel
    /\ counts = NoFrame /\ analytic = NoFrame /\ shown = NoFrame /\ chart = NoFrame
    /\ view = NoView

Rest ==
    /\ ma_groups = <<>> /\ sa_cols = <<>> /\ sel = NoSel
    /\ counts = NoFrame /\ analytic = NoFrame /\ shown = NoFrame /\ chart = NoFrame
    /\ view = NoView
    /\ arg = <<>> /\ res = <<>>

\* tables of up to MaxCols columns and at most one row: what classification
\* reads of a column is its name and the set of its values
InitClassify ==
    /\ pc = "loaded"
    /\ \E k \in 0..MaxCols, n \in 0..1 :
       \E names \in {f \in [1..k -> ColNames] : Injective(f)},
          vals \in [1..k -> [1..n -> ClassifyCells]] :
          df = TableOf(names, vals, n)
    /\ Rest

\* lines 66-68
Classify ==
    /\ pc = "loaded"
    /\ ma_groups' = build_ma_groups(df)
    /\ sa_cols' = sa_cols_of(df, ma_groups')
    /\ pc' = "classified"
    /\ UNCHANGED <<df, sel, counts, analytic, shown, view, chart, arg, res>>

NextClassify == Classify

SpecClassify == InitClassify /\ [][NextClassify]_vars

(***************************************************************************)
(* is_binary_like applied to one column.                                   *)
(***************************************************************************)
BinaryCells == {NA, Num(0), Num(1), Num(2), Str(<<"1">>), Str(<<"x">>)}

SeqsUpTo(S, n) == UNION {[1..k -> S] : k \in 0..n}

InitBinary ==
    /\ pc = "binary"
    /\ arg \in SeqsUpTo(BinaryCells, MaxColLen)
    /\ res = <<>>
    /\ InitIdle

ApplyIsBinaryLike ==
    /\ pc = "binary"
    /\ res' = <<is_binary_like(arg)>>
    /\ pc' = "binary_done"
    /\ UNCHANGED <<df, ma_groups, sa_cols, sel, counts, analytic, shown, view, chart, arg>>

NextBinary == ApplyIsBinaryLike

SpecBinary == InitBinary /\ [][NextBinary]_vars

(***************************************************************************)
(* shorten_label applied to a label, and again to its result.              *)
(***************************************************************************)
LabelChars == {"a", "b", "..."}

RepeatA(n) == [i \in 1..n |-> "a"]

Labels(n) ==
    {Str(t) : t \in SeqsUpTo(LabelChars, n)}
        \cup {Str(RepeatA(k)) : k \in (LabelMaxLenMin - 1)..(LabelMaxLenMin + 2)}
        \cup {Num(7), Num(123456789)}

MaxLens == (0..MaxMaxLen) \cup {LabelMaxLenMin}

InitLabel ==
    /\ pc = "label"
    /\ arg \in [x : Labels(MaxLabelLen), m : MaxLens]
    /\ res = <<>>
    /\ InitIdle

Shorten ==
    /\ pc = "label"
    /\ res' = <<shorten_label(arg.x, arg.m)>>
    /\ pc' = "label_once"
    /\ UNCHANGED <<df, ma_groups, sa_cols, sel, counts, analytic, shown, view, chart, arg>>

ShortenAgain ==
    /\ pc = "label_once"
    /\ res' = Append(res, shorten_label(res[1], arg.m))
    /\ pc' = "label_twice"
    /\ UNCHANGED <<df, ma_groups, sa_cols, sel, counts, analytic, shown, view, chart, arg>>

NextLabel == Shorten \/ ShortenAgain

SpecLabel == InitLabel /\ [][NextLabel]_vars

(***************************************************************************)
(* topn_with_other applied to a two-column table (label, value).           *)
(***************************************************************************)
RowLabel(i) == Str(<<"v", DigitChar(i)>>)

FrameOf(values) ==
    [columns |-> <<"label", "value">>,
     rows |-> [i \in 1..Len(values) |->
                 [c \in {"label", "value"} |->
                     IF c = "label" THEN RowLabel(i) ELSE Num(values[i])]]]

InitTopN ==
    /\ pc = "topn"
    /\ arg \in [t : {FrameOf(v) : v \in SeqsUpTo(0..MaxValue, MaxFreqRows)},
                top_n : 0..MaxTopN]
    /\ res = <<>>
    /\ InitIdle

ApplyTopN ==
    /\ pc = "topn"
    /\ res' = <<topn_with_other(arg.t, "label", "value", arg.top_n)>>
    /\ pc' = "topn_done"
    /\ UNCHANGED <<df, ma_groups, sa_cols, sel, counts, analytic, shown, view, chart, arg>>

\* lines 107-108 on the same table: the display view and what it leaves of
\* the table it was built from
ApplyDisplayView ==
    /\ pc = "topn"
    /\ \E label_max_len \in LabelMaxLens :
          res' = <<display_view(arg.t, "label", "value", "display",
                                arg.top_n, label_max_len)>>
    /\ pc' = "display_done"
    /\ UNCHANGED <<df, ma_groups, sa_cols, sel, counts, analytic, shown, view, chart, arg>>

NextTopN == ApplyTopN \/ ApplyDisplayView

SpecTopN == InitTopN /\ [][NextTopN]_vars


(***************************************************************************)
(* The views.  A run of the script is one action: it classifies the        *)
(* columns (lines 66-68), computes the table of the selected view, builds  *)
(* the display view and renders.  The sliders give top_n and               *)
(* label_max_len (their two ends are taken).                               *)
(***************************************************************************)

\* df[cols].fillna(0).apply(pd.to_numeric, errors="coerce").fillna(0) on one
\* column (line 134), and the same expression of line 229
selection(s) ==
    [i \in 1..Len(s) |->
        LET c == to_numeric(IF s[i].k = "na" THEN Num(0) ELSE s[i])
        IN  IF c.k = "na" THEN Num(0) ELSE c]

option_names_of(cols) == [i \in 1..Len(cols) |-> split_ma_group(cols[i])[2]]

\* the values present are counted instead of the selections summed
option_sum_notna(t, c) == Len(dropna(Series(t, c)))

\* sel.sum(axis=0).astype(int) of one member column
option_sum(t, c) ==
    LET x == selection(Series(t, c)) IN SumSeq([i \in 1..Len(x) |-> x[i].n])

\* the orders sort_values("selected", ascending=False) may give the member
\* columns: non-increasing sum
option_orders(t, cols) ==
    {o \in [1..Len(cols) -> 1..Len(cols)] :
        /\ Injective(o)
        /\ \A i \in 1..(Len(cols) - 1) :
              option_sum(t, cols[o[i]]) >= option_sum(t, cols[o[i + 1]])}

\* lines 134-142, the member columns in the order o
ma_option_counts(t, cols, o) ==
    [columns |-> <<"option", "selected", "pct">>,
     rows |-> [i \in 1..Len(o) |->
                 [c \in {"option", "selected", "pct"} |->
                     IF c = "option" THEN Str(option_names_of(cols)[o[i]])
                     ELSE IF c = "selected" THEN Num(option_sum(t, cols[o[i]]))
                     ELSE Num(round1_pct(option_sum(t, cols[o[i]]), t.nrows))]]]

\* list.index(x): the first place of x
index_of(l, x) == CHOOSE i \in 1..Len(l) : l[i] = x /\ \A j \in 1..(i - 1) : l[j] # x

\* line 227
col_pick_of(cols, opt_pick) == cols[index_of(option_names_of(cols), opt_pick)]

\* line 229: the rows of the mask
mask_of(t, col_pick) ==
    {i \in 1..t.nrows : selection(Series(t, col_pick))[i] = Num(1)}

\* df.loc[mask, left_q]
RECURSIVE loc(_, _, _)
loc(s, mask, i) ==
    IF i > Len(s) THEN <<>>
    ELSE IF i \in mask THEN <<s[i]>> \o loc(s, mask, i + 1)
    ELSE loc(s, mask, i + 1)

\* code points order the characters
CodePointOrder ==
    <<" ", "-", "0", "1", "2", "3", "4", "5", "6", "7", "8", "9",
      "A", "B", "F", "G", "M", "Q", "R", "a", "b", "c", "d", "e", "f", "g", "n",
      "v", "x", "...", "so", "no", "ta", "kai", "mu", "tou">>

CharRank(c) == CHOOSE i \in 1..Len(CodePointOrder) : CodePointOrder[i] = c

RECURSIVE TextLess(_, _)
TextLess(a, b) ==
    IF b = <<>> THEN FALSE
    ELSE IF a = <<>> THEN TRUE
    ELSE IF a[1] = b[1] THEN TextLess(Tail(a), Tail(b))
    ELSE CharRank(a[1]) < CharRank(b[1])

\* the sorted distinct values of a series of texts (the crosstab's axes)
RECURSIVE sorted_values(_)
sorted_values(S) ==
    IF S = {} THEN <<>>
    ELSE LET m == CHOOSE x \in S : \A y \in S \ {x} : TextLess(x.s, y.s)
         IN  <<m>> \o sorted_values(S \ {m})

\* pd.crosstab(left, right), line 181
crosstab(left, right) ==
    LET idx == sorted_values(Range(left))
        cls == sorted_values(Range(right))
    IN  [index |-> idx, columns |-> cls,
         values |-> [i \in 1..Len(idx) |-> [j \in 1..Len(cls) |->
            Num(Cardinality({r \in 1..Len(left) :
                                left[r] = idx[i] /\ right[r] = cls[j]}))]]]

row_total(ct, i) == SumSeq([j \in 1..Len(ct.columns) |-> ct.values[i][j].n])
col_total(ct, j) == SumSeq([i \in 1..Len(ct.index) |-> ct.values[i][j].n])

\* round(1) replaced by a truncation to one decimal
pct_cell_truncated(num, den) == IF den = 0 THEN NA ELSE Num((num * 1000) \div den)

\* a division by a zero total is NaN
pct_cell(num, den) == IF den = 0 THEN NA ELSE Num(round1_pct(num, den))

\* line 184
row_pct(ct) ==
    [ct EXCEPT !.values = [i \in 1..Len(ct.index) |-> [j \in 1..Len(ct.columns) |->
        pct_cell(ct.values[i][j].n, row_total(ct, i))]]]

\* line 186
col_pct(ct) ==
    [ct EXCEPT !.values = [i \in 1..Len(ct.index) |-> [j \in 1..Len(ct.columns) |->
        pct_cell(ct.values[i][j].n, col_total(ct, j))]]]

Metrics == {"counts", "row%", "col%"}

\* a widget changes (or the file is uploaded): the script runs again from
\* its first line and draws the page anew
Rerun ==
    /\ pc \in {"rendered", "stopped"}
    /\ pc' = "loaded"
    /\ ma_groups' = <<>> /\ sa_cols' = <<>> /\ sel' = NoSel
    /\ counts' = NoFrame /\ analytic' = NoFrame /\ shown' = NoFrame
    /\ chart' = NoFrame /\ view' = NoView
    /\ UNCHANGED <<df, arg, res>>

\* lines 96-114
RenderSA ==
    /\ pc = "loaded"
    /\ ma_groups' = build_ma_groups(df)
    /\ sa_cols' = sa_cols_of(df, ma_groups')
    /\ \E q \in Range(sa_cols'), top_n \in TopNs, label_max_len \in LabelMaxLens :
       \E s \in {safe_series(Series(df, q))} :
       \E o \in descending_orders(s) :
       \E built \in {frequency_table(s, o)} :
       \E dv \in {display_view(built, "label", "count", "display",
                               top_n, label_max_len)} :
          /\ counts' = built
          /\ analytic' = built
          /\ shown' = dv.counts
          /\ chart' = dv.counts_top
          /\ sel' = [NoSel EXCEPT !.view = "SA", !.q = q, !.ord = o]
    /\ pc' = "rendered"
    /\ view' = NoView
    /\ UNCHANGED <<df, arg, res>>

\* lines 126-151
RenderMA ==
    /\ pc = "loaded"
    /\ ma_groups' = build_ma_groups(df)
    /\ sa_cols' = sa_cols_of(df, ma_groups')
    /\ IF ma_groups' = <<>>
       THEN /\ pc' = "stopped"
            /\ sel' = [NoSel EXCEPT !.view = "MA"]
            /\ counts' = NoFrame /\ analytic' = NoFrame
            /\ shown' = NoFrame /\ chart' = NoFrame
       ELSE /\ pc' = "rendered"
            /\ \E ma_q \in 1..Len(ma_groups'), top_n \in TopNs,
                  label_max_len \in LabelMaxLens :
               \E cols \in {ma_groups'[ma_q].cols} :
               \E o \in option_orders(df, cols) :
               \E built \in {ma_option_counts(df, cols, o)} :
               \E dv \in {display_view(built, "option", "selected", "display",
                                       top_n, label_max_len)} :
                  /\ counts' = built
                  /\ analytic' = built
                  /\ shown' = dv.counts
                  /\ chart' = dv.counts_top
                  /\ sel' = [NoSel EXCEPT !.view = "MA", !.ma_q = ma_q, !.ord = o]
    /\ view' = NoView
    /\ UNCHANGED <<df, arg, res>>

\* lines 174-199
RenderCrosstab ==
    /\ pc = "loaded"
    /\ ma_groups' = build_ma_groups(df)
    /\ sa_cols' = sa_cols_of(df, ma_groups')
    /\ \E left_q \in Range(sa_cols'), right_q \in Range(sa_cols'), metric \in Metrics :
       \E ct \in {crosstab(safe_series(Series(df, left_q)),
                           safe_series(Series(df, right_q)))} :
          /\ view' = IF metric = "row%" THEN row_pct(ct)
                     ELSE IF metric = "col%" THEN col_pct(ct)
                     ELSE ct
          /\ sel' = [NoSel EXCEPT !.view = "SAxSA", !.q = left_q,
                                  !.right_q = right_q, !.metric = metric]
    /\ pc' = "rendered"
    /\ counts' = NoFrame /\ analytic' = NoFrame /\ shown' = NoFrame /\ chart' = NoFrame
    /\ UNCHANGED <<df, arg, res>>

\* lines 214-252
RenderSAxMA ==
    /\ pc = "loaded"
    /\ ma_groups' = build_ma_groups(df)
    /\ sa_cols' = sa_cols_of(df, ma_groups')
    /\ IF ma_groups' = <<>>
       THEN /\ pc' = "stopped"
            /\ sel' = [NoSel EXCEPT !.view = "SAxMA"]
            /\ counts' = NoFrame /\ analytic' = NoFrame
            /\ shown' = NoFrame /\ chart' = NoFrame
       ELSE /\ pc' = "rendered"
            /\ \E left_q \in Range(sa_cols'), ma_q \in 1..Len(ma_groups'),
                  metric \in Metrics, top_n \in TopNs, label_max_len \in LabelMaxLens :
               \E cols \in {ma_groups'[ma_q].cols} :
               \E opt \in 1..Len(cols) :
               \E opt_pick \in {option_names_of(cols)[opt]} :
               \E col_pick \in {col_pick_of(cols, opt_pick)} :
               \E mask \in {mask_of(df, col_pick)} :
               \E base \in {safe_series(loc(Series(df, left_q), mask, 1))} :
               \E o \in descending_orders(base) :
               \E built \in {frequency_table(base, o)} :
               \E value_col \in {IF metric = "counts" THEN "count" ELSE "pct"} :
               \E show_df \in {select_columns(built, <<"label", value_col>>)} :
               \E dv \in {display_view(show_df, "label", value_col, "display",
                                       top_n, label_max_len)} :
                  /\ counts' = built
                  /\ analytic' = show_df
                  /\ shown' = dv.counts
                  /\ chart' = dv.counts_top
                  /\ sel' = [NoSel EXCEPT !.view = "SAxMA",
                               !.q = left_q, !.ma_q = ma_q,
                               !.opt = opt, !.opt_pick = opt_pick,
                               !.col_pick = col_pick,
                               !.metric = metric, !.ord = o]
    /\ view' = NoView
    /\ UNCHANGED <<df, arg, res>>

(***************************************************************************)
(* Tables of the SA views: an SA column "G" with missing values and with   *)
(* the no-answer text as a real answer, and two option columns of the      *)
(* question "Q"; the second option column is "Q - B" or "Q  - A", whose    *)
(* option name is that of "Q - A" after the split and strip.               *)
(***************************************************************************)
ColG == <<"G">>
ColQA == <<"Q", " ", "-", " ", "A">>
ColQB == <<"Q", " ", "-", " ", "B">>
ColQA2 == <<"Q", " ", " ", "-", " ", "A">>

GCells == {NA, NoAnswerLabel, Str(<<"M">>)}
ACells == {NA, Num(1)}
BCells == {Num(0), Num(1)}

Init ==
    /\ pc = "loaded"
    /\ \E n \in 0..MaxRows :
       \E c3 \in {ColQB, ColQA2},
          g \in [1..n -> GCells], a \in [1..n -> ACells], b \in [1..n -> BCells] :
          df = TableOf(<<ColG, ColQA, c3>>, <<g, a, b>>, n)
    /\ Rest

Next == RenderSA \/ RenderSAxMA \/ Rerun

Spec == Init /\ [][Next]_vars

(***************************************************************************)
(* Tables of the MA view: two option columns with missing values,          *)
(* non-numeric text and numeric text.                                      *)
(***************************************************************************)
MACellsA == {NA, Num(0), Num(1), Str(<<"x">>)}
MACellsB == {Num(0), Num(1), Str(<<"1">>)}

InitMA ==
    /\ pc = "loaded"
    /\ \E n \in 0..MaxRows :
       \E a \in [1..n -> MACellsA], b \in [1..n -> MACellsB] :
          df = TableOf(<<ColQA, ColQB>>, <<a, b>>, n)
    /\ Rest

NextMA == RenderMA \/ Rerun

SpecMA == InitMA /\ [][NextMA]_vars

(***************************************************************************)
(* Tables of the crosstab: a row question "G" and a column question "H"    *)
(* with up to six distinct answers.  pd.crosstab counts pairs, so the      *)
(* tables are taken up to the order of their rows: the rows of a table are *)
(* in non-decreasing order of RowKinds.                                    *)
(***************************************************************************)
ColH == <<"H">>

RowKinds ==
    <<  <<Str(<<"M">>), Str(<<"a">>)>>, <<Str(<<"M">>), Str(<<"b">>)>>,
        <<Str(<<"M">>), Str(<<"c">>)>>, <<Str(<<"M">>), Str(<<"d">>)>>,
        <<Str(<<"M">>), Str(<<"e">>)>>, <<Str(<<"M">>), Str(<<"f">>)>>,
        <<NA, Str(<<"a">>)>>, <<NA, Str(<<"b">>)>>, <<NA, NA>>  >>

RECURSIVE NonDecreasing(_, _)
NonDecreasing(n, lo) ==
    IF n = 0 THEN {<<>>}
    ELSE UNION {{<<v>> \o r : r \in NonDecreasing(n - 1, v)} : v \in lo..Len(RowKinds)}

InitCrosstab ==
    /\ pc = "loaded"
    /\ \E n \in 0..MaxCtRows :
       \E ks \in NonDecreasing(n, 1) :
          df = TableOf(<<ColG, ColH>>,
                       <<[i \in 1..n |-> RowKinds[ks[i]][1]],
                         [i \in 1..n |-> RowKinds[ks[i]][2]]>>, n)
    /\ Rest

NextCrosstab == RenderCrosstab \/ Rerun

SpecCrosstab == InitCrosstab /\ [][NextCrosstab]_vars

(***************************************************************************)
(* Properties.                                                             *)
(***************************************************************************)
GroupsOf(c) == {i \in 1..Len(ma_groups) : c \in Range(ma_groups[i].cols)}

\* C1: after classification every column is in at most one MA group (and
\* at most once in it), every MA group has at least 2 member columns, the
\* SA columns are exactly the columns in no MA group, and they are listed in
\* the order of the table.
C1_ClassificationPartitions ==
    pc = "classified" =>
        /\ \A c \in Range(columns(df)) : Cardinality(GroupsOf(c)) <= 1
        /\ \A i \in 1..Len(ma_groups) :
              /\ Len(ma_groups[i].cols) >= 2
              /\ Injective(ma_groups[i].cols)
              /\ Range(ma_groups[i].cols) \subseteq Range(columns(df))
        /\ Range(sa_cols) = {c \in Range(columns(df)) : GroupsOf(c) = {}}
        /\ \A i, j \in 1..Len(sa_cols) :
              i < j => Column(df, sa_cols[i]) < Column(df, sa_cols[j])

\* a table with an MA group and with a column that matched a question
\* alone and went back to the SA columns
C1_Witness ==
    /\ pc = "classified"
    /\ ma_groups # <<>>
    /\ \E c \in Range(sa_cols) :
          /\ Truthy(split_ma_group(c)[1]) /\ Truthy(split_ma_group(c)[2])
          /\ is_binary_like(Series(df, c))

\* the distinct values left of a column after dropping the missing values
\* and the values numeric coercion fails on
RemainingValues(s) ==
    {to_numeric(s[i]).n : i \in {j \in 1..Len(s) : to_numeric(s[j]).k = "num"}}

\* C2: is_binary_like is true exactly when the values that remain after
\* dropping missing and non-numeric values are a non-empty subset of {0, 1}.
C2_BinaryLikeIffNonEmptySubset ==
    pc = "binary_done" =>
        (res[1] <=> (RemainingValues(arg) # {} /\ RemainingValues(arg) \subseteq {0, 1}))

ValueAt(d, i) == d.rows[i]["value"].n

Total(d) == SumSeq([i \in 1..Len(d.rows) |-> ValueAt(d, i)])

\* C3: topn_with_other returns the table itself when top_n >= its row count;
\* otherwise top_n + 1 rows, the first top_n rows unchanged and in order, and
\* one Other row whose value is the total minus the sum of the first top_n
\* values, so that the total is preserved.
C3_TopNWithOther ==
    pc = "topn_done" =>
        LET t == arg.t
            n == arg.top_n
            r == res[1]
        IN  IF n >= Len(t.rows) THEN r.rows = t.rows /\ r.columns = t.columns
            ELSE /\ Len(r.rows) = n + 1
                 /\ \A i \in 1..n : r.rows[i] = t.rows[i]
                 /\ r.rows[n + 1]["label"] = OtherLabel
                 /\ r.rows[n + 1]["value"] =
                        Num(Total(t) - SumSeq([i \in 1..n |-> ValueAt(t, i)]))
                 /\ Total(r) = Total(t)

\* a table collapsed to a proper head and a non-zero Other row
C3_Witness ==
    /\ pc = "topn_done"
    /\ arg.top_n > 0 /\ arg.top_n + 1 < Len(arg.t.rows)
    /\ res[1].rows[arg.top_n + 1]["value"].n > 0

\* C8: shorten_label is idempotent.
C8_ShortenIdempotent ==
    pc = "label_twice" => res[2] = res[1]

\* a label longer than a slider value, which the first application cut
C8_Witness ==
    /\ pc = "label_twice"
    /\ arg.m >= LabelMaxLenMin
    /\ Len(str(arg.x)) > arg.m
    /\ res[1] # arg.x


Abs(x) == IF x < 0 THEN -x ELSE x

Missing(s) == {i \in 1..Len(s) : s[i].k = "na"}

Holding(s, v) == {i \in 1..Len(s) : s[i] = v}

RowsLabelled(d, col, v) == {i \in 1..Len(d.rows) : d.rows[i][col] = v}

NonIncreasing(d, col) ==
    \A i \in 1..(Len(d.rows) - 1) : d.rows[i][col].n >= d.rows[i + 1][col].n

\* C4: in the SA distribution the no-answer row counts exactly the missing
\* values, and every real value's row counts exactly the rows holding it.
C4_NoAnswerCountsMissing ==
    (pc = "rendered" /\ sel.view = "SA") =>
        LET s == Series(df, sel.q)
        IN  /\ \A i \in RowsLabelled(counts, "label", NoAnswerLabel) :
                  counts.rows[i]["count"] = Num(Cardinality(Missing(s)))
            /\ Missing(s) # {} => RowsLabelled(counts, "label", NoAnswerLabel) # {}
            /\ \A v \in Range(s) \ {NA} :
                  \E i \in RowsLabelled(counts, "label", v) :
                      counts.rows[i]["count"] = Num(Cardinality(Holding(s, v)))

\* the rows whose value in column c coerces to the number 1
Selecting(t, c) == {i \in 1..t.nrows : to_numeric(Series(t, c)[i]) = Num(1)}

Observations ==
    IF sel.view = "SA" THEN df.nrows
    ELSE Cardinality(Selecting(df, sel.col_pick))

\* C5: in the SA distribution and in the option-filtered SA distribution the
\* counts sum to the number of observations aggregated (all rows, resp. the
\* rows passing the filter), and the rows are in non-increasing order of
\* count.
C5_CountsSumToObservations ==
    (pc = "rendered" /\ sel.view \in {"SA", "SAxMA"}) =>
        /\ ColSum(counts, "count") = Observations
        /\ NonIncreasing(counts, "count")

\* a filtered distribution over some but not all rows, a missing answer
\* among them
C5_Witness ==
    /\ pc = "rendered" /\ sel.view = "SAxMA"
    /\ Cardinality(Selecting(df, sel.col_pick)) \in 2..(df.nrows - 1)
    /\ \E i \in Selecting(df, sel.col_pick) : Series(df, sel.q)[i] = NA
    /\ Len(counts.rows) = 2

RowSum(v, i) == SumSeq([j \in 1..Len(v.columns) |-> v.values[i][j].n])

\* C6 as stated: under row% every row of the crosstab sums to 100 within
\* 0.1, whatever the number of columns (values in tenths of a percent).
C6_RowPctWithinOneTenth ==
    (pc = "rendered" /\ sel.view = "SAxSA" /\ sel.metric = "row%") =>
        \A i \in 1..Len(view.index) : Abs(RowSum(view, i) - 1000) <= 1

\* C6 as amended: under row% every row of the crosstab sums to 100 within
\* 0.05 times the number of columns of the crosstab.
C6_RowPctWithinHalfTenthPerColumn ==
    (pc = "rendered" /\ sel.view = "SAxSA" /\ sel.metric = "row%") =>
        \A i \in 1..Len(view.index) :
            /\ \A j \in 1..Len(view.columns) : view.values[i][j].k = "num"
            /\ 2 * Abs(RowSum(view, i) - 1000) <= Len(view.columns)

\* a row% crosstab of six columns with a row that sums to 100.2
C6_Witness ==
    /\ pc = "rendered" /\ sel.view = "SAxSA" /\ sel.metric = "row%"
    /\ Len(view.columns) = 6
    /\ \E i \in 1..Len(view.index) : RowSum(view, i) = 1002

\* C7: every MA option row counts the rows whose value in its member column
\* coerces to 1, its percentage is that count over the number of table rows
\* (to the nearest tenth), the count is between 0 and the row count, and the
\* rows are in non-increasing order of count.
C7_OptionCounts ==
    (pc = "rendered" /\ sel.view = "MA") =>
        LET cols == ma_groups[sel.ma_q].cols
            o == sel.ord
        IN  /\ Len(counts.rows) = Len(cols)
            /\ Range(o) = 1..Len(cols)
            /\ \A i \in 1..Len(cols) :
                  LET c == Cardinality(Selecting(df, cols[o[i]]))
                      p == counts.rows[i]["pct"].n
                  IN  /\ counts.rows[i]["selected"] = Num(c)
                      /\ c \in 0..df.nrows
                      /\ 2 * Abs(p * df.nrows - 1000 * c) <= df.nrows
            /\ NonIncreasing(counts, "selected")

\* an MA group with a missing value, a non-numeric text and a numeric text,
\* whose two options are selected by different numbers of rows and whose
\* percentages do not sum to 100
C7_Witness ==
    /\ pc = "rendered" /\ sel.view = "MA"
    /\ NA \in Range(Series(df, ColQA))
    /\ Str(<<"x">>) \in Range(Series(df, ColQA))
    /\ Str(<<"1">>) \in Range(Series(df, ColQB))
    /\ counts.rows[1]["selected"].n > counts.rows[2]["selected"].n
    /\ counts.rows[2]["selected"].n > 0
    /\ ColSum(counts, "pct") # 1000

\* C9: the option filter uses the member column the user chose.
C9_FilterUsesChosenColumn ==
    (pc = "rendered" /\ sel.view = "SAxMA") =>
        /\ sel.col_pick = ma_groups[sel.ma_q].cols[sel.opt]
        /\ ColSum(counts, "count") =
              Cardinality(Selecting(df, ma_groups[sel.ma_q].cols[sel.opt]))

\* C10: the table of the data grid is rendered with the rows and the columns
\* it had before the display view was built.
C10_AnalyticTableUnchanged ==
    (pc = "rendered" /\ sel.view \in {"SA", "SAxMA"}) =>
        /\ shown.rows = analytic.rows
        /\ shown.columns = analytic.columns

=============================================================================
